---- MODULE Spec2Model ----
(***************************************************************************)
(* LuminaMinutes: the rate limiter, the request cache, the summarization   *)
(* pipeline (POST /api/summarize) and the email pipeline                    *)
(* (POST /api/send-email) as one state machine.                             *)
(*                                                                          *)
(* Time is the value of Date.now() in milliseconds.                         *)
(***************************************************************************)
EXTENDS Integers, Sequences, FiniteSets, TLC

VARIABLES
    now,           \* Date.now(), in ms
    limiter,       \* rateLimiters: policy -> (client key -> RateLimitState)
    rlLast,        \* the last call of rateLimit: its arguments, the entry it found, its result
    env,           \* process.env: which credentials are configured
    requestCache,  \* requestCache of the summarize route: cache key -> entry
    sreq,          \* the invocations of POST /api/summarize, one per slot
    abandoned,     \* upstream calls still in flight whose request has timed out
    ereq,          \* the invocations of POST /api/send-email, one per slot
    started,       \* number of requests the routes have received
    load,          \* the clients of this run: what they send, and when the clock is read
    apiError,      \* an error on its way through handleAPIError and sanitizeErrorResponse
    page,          \* the summary page: the state of SummaryContent and of SummaryEditor
    history        \* localStorage "lumina-history": the entries, latest first

vars == <<now, limiter, rlLast, env, requestCache, sreq, abandoned, ereq, started, load,
          apiError, page, history>>

None == "none"

(***************************************************************************)
(* Bounds of the model (not program constants)                              *)
(***************************************************************************)
TickMs == 30000          \* the clock advances in steps of TickMs
MaxTicks == 11           \* the clock stops after MaxTicks steps
MaxStarts == 12          \* requests a route receives in a run that exhausts a budget
MaxAbandoned == 1        \* abandoned upstream calls in flight when a request is received


(***************************************************************************)
(* Strings.  A string is a sequence of runs <<c, n>>: the character c       *)
(* repeated n >= 1 times, no two adjacent runs of the same character, so    *)
(* that two strings are equal iff their run sequences are equal.            *)
(***************************************************************************)
Run(c, n) == <<c, n>>

RECURSIVE StrLen(_)
\* s.length
StrLen(s) == IF s = <<>> THEN 0 ELSE Head(s)[2] + StrLen(Tail(s))

RECURSIVE Norm(_)
\* the run sequence of the same characters in normal form
Norm(s) ==
    IF s = <<>> THEN <<>>
    ELSE IF Head(s)[2] = 0 THEN Norm(Tail(s))
    ELSE IF Tail(s) # <<>> /\ Head(Tail(s))[1] = Head(s)[1]
         THEN Norm(<<Run(Head(s)[1], Head(s)[2] + Head(Tail(s))[2])>> \o Tail(Tail(s)))
         ELSE <<Head(s)>> \o Norm(Tail(s))

\* string concatenation (template literals)
Concat(s, t) == Norm(s \o t)

IsSpace(c) == c = " "

RECURSIVE TrimStart(_)
TrimStart(s) == IF s # <<>> /\ IsSpace(Head(s)[1]) THEN TrimStart(Tail(s)) ELSE s

RECURSIVE TrimEnd(_)
TrimEnd(s) ==
    IF s # <<>> /\ IsSpace(s[Len(s)][1])
    THEN TrimEnd(SubSeq(s, 1, Len(s) - 1))
    ELSE s

\* s.trim()
Trim(s) == TrimEnd(TrimStart(s))

\* s.replace(/[<>]/g, '')
StripAngles(s) == Norm(SelectSeq(s, LAMBDA r : r[1] \notin {"<", ">"}))

RECURSIVE Substring(_, _)
\* s.substring(0, k)
Substring(s, k) ==
    IF s = <<>> \/ k <= 0 THEN <<>>
    ELSE IF Head(s)[2] >= k THEN <<Run(Head(s)[1], k)>>
    ELSE <<Head(s)>> \o Substring(Tail(s), k - Head(s)[2])

RECURSIVE Chars(_)
\* the characters of s, one by one
Chars(s) ==
    IF s = <<>> THEN <<>>
    ELSE [i \in 1..Head(s)[2] |-> Head(s)[1]] \o Chars(Tail(s))

SanitizeLimit == 10000

\* sanitizeInput(input)
sanitizeInput(input) == Substring(StripAngles(Trim(input)), SanitizeLimit)

\* /^[^\s@]+@[^\s@]+\.[^\s@]+$/.test(s)
emailRegex(s) ==
    LET cs == Chars(s)
        n == StrLen(s)
        ats == {i \in 1..n : cs[i] = "@"}
    IN /\ \A i \in 1..n : ~IsSpace(cs[i])
       /\ Cardinality(ats) = 1
       /\ \E a \in ats :
             /\ a > 1
             /\ \E d \in (a + 2)..(n - 1) : cs[d] = "."

EmailMaxLen == 254

\* validateEmail(email)
validateEmail(email) == emailRegex(Trim(email)) /\ StrLen(email) <= EmailMaxLen

TranscriptMinLen == 10
TranscriptMaxLen == 50000

\* validateTranscript that measures the text as received
validateTranscript_NoTrim(transcript) ==
    StrLen(transcript) > TranscriptMinLen /\ StrLen(transcript) <= TranscriptMaxLen

\* validateTranscript(transcript)
validateTranscript(transcript) ==
    StrLen(Trim(transcript)) > TranscriptMinLen /\ StrLen(Trim(transcript)) <= TranscriptMaxLen

InstructionMaxLen == 500

\* validateInstruction(instruction)
validateInstruction(instruction) == StrLen(Trim(instruction)) <= InstructionMaxLen

(***************************************************************************)
(* Rate limiter: src/src/lib/rate-limiter.ts                                *)
(***************************************************************************)
Policies == {"summarize", "email", "general"}

NoIp == "noip"                       \* req.ip is undefined
Ips == {"10.0.0.1", NoIp}

\* rateLimiters with one more point in the summarize budget
rateLimiters_MorePoints ==
    [summarize |-> [points |-> 11,  duration |-> 60, blockDuration |-> 60 * 2],
     email     |-> [points |-> 5,   duration |-> 60, blockDuration |-> 60 * 5],
     general   |-> [points |-> 100, duration |-> 60, blockDuration |-> 60]]

\* rateLimiters with the email block as long as the window
rateLimiters_ShortBlock ==
    [summarize |-> [points |-> 10,  duration |-> 60, blockDuration |-> 60 * 2],
     email     |-> [points |-> 5,   duration |-> 60, blockDuration |-> 60],
     general   |-> [points |-> 100, duration |-> 60, blockDuration |-> 60]]

\* rateLimiters: points, duration (s) and blockDuration (s) of each policy
rateLimiters ==
    [summarize |-> [points |-> 10,  duration |-> 60, blockDuration |-> 60 * 2],
     email     |-> [points |-> 5,   duration |-> 60, blockDuration |-> 60 * 5],
     general   |-> [points |-> 100, duration |-> 60, blockDuration |-> 60]]

\* req.ip || 'unknown'
ClientKey(ip) == IF ip = NoIp THEN "unknown" ELSE ip

Keys == {ClientKey(ip) : ip \in Ips}

\* RateLimitState of a client key that has not been seen yet.  blockedAt (when the
\* block began) and deniedInBlock (a request was denied during the block) are
\* history marks: no decision reads them.
NoEntry == [count |-> 0, windowStart |-> 0, blockedUntil |-> -1,
            blockedAt |-> -1, deniedInBlock |-> FALSE]

EntryOf(p, key) == IF key \in DOMAIN limiter[p] THEN limiter[p][key] ELSE NoEntry

IsBlocked(e, t) == e.blockedUntil # -1 /\ t < e.blockedUntil

WindowOpen(p, e, t) == e.count > 0 /\ t < e.windowStart + rateLimiters[p].duration * 1000

\* limiter.consume(key): the new entry and the resolved (ok) or rejected result
Consume(p, e, t) ==
    LET cfg == rateLimiters[p] IN
    IF IsBlocked(e, t)
    THEN [entry |-> [e EXCEPT !.deniedInBlock = TRUE],
          ok |-> FALSE,
          remainingPoints |-> 0,
          msBeforeNext |-> e.blockedUntil - t]
    ELSE IF e.blockedUntil = -1 /\ WindowOpen(p, e, t)
    THEN IF e.count + 1 > cfg.points
         THEN [entry |-> [e EXCEPT !.count = e.count + 1,
                                   !.blockedUntil = t + cfg.blockDuration * 1000,
                                   !.blockedAt = t],
               ok |-> FALSE,
               remainingPoints |-> 0,
               msBeforeNext |-> cfg.blockDuration * 1000]
         ELSE [entry |-> [e EXCEPT !.count = e.count + 1],
               ok |-> TRUE,
               remainingPoints |-> cfg.points - (e.count + 1),
               msBeforeNext |-> e.windowStart + cfg.duration * 1000 - t]
    ELSE [entry |-> [NoEntry EXCEPT !.count = 1, !.windowStart = t],
          ok |-> TRUE,
          remainingPoints |-> cfg.points - 1,
          msBeforeNext |-> cfg.duration * 1000]

\* rateLimit with a catch branch that reports no time to wait
rateLimit_NoReset(p, ip, t) ==
    LET r == Consume(p, EntryOf(p, ClientKey(ip)), t) IN
    IF r.ok
    THEN [success |-> TRUE,  remainingPoints |-> r.remainingPoints, resetTime |-> r.msBeforeNext]
    ELSE [success |-> FALSE, remainingPoints |-> 0,                 resetTime |-> 0]

\* rateLimit with a catch branch that swallows the rejection
rateLimit_Swallow(p, ip, t) ==
    LET r == Consume(p, EntryOf(p, ClientKey(ip)), t) IN
    [success |-> TRUE, remainingPoints |-> r.remainingPoints, resetTime |-> r.msBeforeNext]

\* rateLimit that reports the whole budget as remaining
rateLimit_FullBudget(p, ip, t) ==
    LET r == Consume(p, EntryOf(p, ClientKey(ip)), t) IN
    IF r.ok
    THEN [success |-> TRUE,  remainingPoints |-> rateLimiters[p].points, resetTime |-> r.msBeforeNext]
    ELSE [success |-> FALSE, remainingPoints |-> 0,                      resetTime |-> r.msBeforeNext]

\* rateLimit(limiter, req, _res): the result object it returns
rateLimit(p, ip, t) ==
    LET r == Consume(p, EntryOf(p, ClientKey(ip)), t) IN
    IF r.ok
    THEN [success |-> TRUE,  remainingPoints |-> r.remainingPoints, resetTime |-> r.msBeforeNext]
    ELSE [success |-> FALSE, remainingPoints |-> 0,                 resetTime |-> r.msBeforeNext]

\* the limiters sharing one store: the entry is written under the key for every policy
LimiterAfter_SharedStore(p, ip, t) ==
    LET key == ClientKey(ip)
        r == Consume(p, EntryOf(p, key), t)
    IN [q \in Policies |->
           [k \in DOMAIN limiter[q] \cup {key} |-> IF k = key THEN r.entry ELSE limiter[q][k]]]

\* the limiter map after rateLimit(limiter, req, _res)
LimiterAfter(p, ip, t) ==
    LET key == ClientKey(ip)
        r == Consume(p, EntryOf(p, key), t)
    IN [limiter EXCEPT ![p] =
           [k \in DOMAIN limiter[p] \cup {key} |-> IF k = key THEN r.entry ELSE limiter[p][k]]]

\* the record kept of a call of rateLimit
CallRecord(p, ip, t) ==
    [policy |-> p, key |-> ClientKey(ip), at |-> t,
     before |-> EntryOf(p, ClientKey(ip)),
     result |-> rateLimit(p, ip, t)]

\* no call of rateLimit yet
NoCall ==
    [policy |-> None, key |-> None, at |-> 0, before |-> NoEntry,
     result |-> [success |-> TRUE, remainingPoints |-> 0, resetTime |-> 0]]

(***************************************************************************)
(* POST /api/summarize: src/src/app/api/summarize/route.ts                  *)
(***************************************************************************)
CACHE_DURATION == 5 * 60 * 1000

TimeoutMs == 30000

CacheSweepSize == 100

\* the invocations of a route that can be in progress together
Slots == {"s1", "s2"}

\* request bodies: kind "malformed" is not JSON, "nostring" has a transcript that
\* is not a string; an absent instruction is the empty string (both are falsy)
Body(kind, transcript, instruction) ==
    [kind |-> kind, transcript |-> transcript, instruction |-> instruction]

tA     == <<Run("a", 11)>>
tShort == <<Run("a", 10)>>
tPad   == <<Run(" ", 2), Run("a", 10), Run(" ", 1)>>
tMax   == <<Run("a", 50000)>>
tOver  == <<Run("a", 50001)>>
tColon == <<Run("a", 11), Run(":", 1), Run("b", 11)>>
tTags  == <<Run("<", 11)>>
iColon == <<Run("b", 11), Run(":", 1)>>
iMax   == <<Run("c", 500)>>
iOver  == <<Run("c", 501)>>

\* the text the upstream model returns ("" is an empty result), or the message of
\* the error it throws, as the set of the phrases the handler looks for in it
UpstreamTexts == {"S1", "S2", ""}
UpstreamErrors == {{"API key"}, {"quota"}, {}}

NoPair == [t |-> <<>>, i |-> <<>>]

NoResponse == [status |-> 0, cached |-> FALSE, summary |-> "", error |-> "", remaining |-> 0]

\* NextResponse.json(...)
Response(status, cached, summary, error, remaining) ==
    [status |-> status, cached |-> cached, summary |-> summary, error |-> error,
     remaining |-> remaining]

\* an invocation that has not begun.  The fields from limited on are history marks.
IdleReq ==
    [pc |-> "idle", ip |-> NoIp, body |-> Body("malformed", <<>>, <<>>),
     remaining |-> 0, key |-> <<>>, pair |-> NoPair, startedAt |-> 0, resp |-> NoResponse,
     limited |-> FALSE, reached |-> {}, calls |-> 0, expect |-> None, seenAge |-> -1, hitPair |-> NoPair,
     storedAt |-> -1, overwritten |-> FALSE]

\* `${sanitizedTranscript}:${sanitizedInstruction}`
CacheKey(st, si) == Concat(Concat(st, <<Run(":", 1)>>), si)

\* the cache test with the age compared the wrong way round
CacheHit_Reversed(key, t) ==
    key \in DOMAIN requestCache /\ t - requestCache[key].timestamp > CACHE_DURATION

\* the cache test that still accepts an entry whose age is the TTL
CacheHit_Inclusive(key, t) ==
    key \in DOMAIN requestCache /\ t - requestCache[key].timestamp <= CACHE_DURATION

\* cachedResult && Date.now() - cachedResult.timestamp < CACHE_DURATION
CacheHit(key, t) ==
    key \in DOMAIN requestCache /\ t - requestCache[key].timestamp < CACHE_DURATION

\* the clean-up that also deletes an entry whose age is the TTL
CacheStore_SweepAtTTL(key, pair, summary, t) ==
    LET set == [k \in DOMAIN requestCache \cup {key} |->
                   IF k = key THEN [summary |-> summary, timestamp |-> t, pair |-> pair]
                   ELSE requestCache[k]]
    IN IF Cardinality(DOMAIN set) > CacheSweepSize
       THEN [k \in {j \in DOMAIN set : ~(t - set[j].timestamp >= CACHE_DURATION)} |-> set[k]]
       ELSE set

\* the store that keeps the entry of a key that is already in the cache
CacheStore_KeepFirst(key, pair, summary, t) ==
    LET set == [k \in DOMAIN requestCache \cup {key} |->
                   IF k \in DOMAIN requestCache THEN requestCache[k]
                   ELSE [summary |-> summary, timestamp |-> t, pair |-> pair]]
    IN IF Cardinality(DOMAIN set) > CacheSweepSize
       THEN [k \in {j \in DOMAIN set : ~(t - set[j].timestamp > CACHE_DURATION)} |-> set[k]]
       ELSE set

\* requestCache.set(cacheKey, {summary, timestamp: Date.now()}) and the clean-up
\* of old entries that follows it
CacheStore(key, pair, summary, t) ==
    LET set == [k \in DOMAIN requestCache \cup {key} |->
                   IF k = key THEN [summary |-> summary, timestamp |-> t, pair |-> pair]
                   ELSE requestCache[k]]
    IN IF Cardinality(DOMAIN set) > CacheSweepSize
       THEN [k \in {j \in DOMAIN set : ~(t - set[j].timestamp > CACHE_DURATION)} |-> set[k]]
       ELSE set

\* the catch block without the branch for the timer's error
SummarizeCatch_NoTimeout(msg) ==
    IF "API key" \in msg THEN [status |-> 401, error |-> "Invalid API key. Please check your Gemini API configuration."]
    ELSE IF "quota" \in msg THEN [status |-> 429, error |-> "API quota exceeded. Please try again later."]
    ELSE [status |-> 500, error |-> "Failed to generate summary. Please try again."]

\* the catch block of the summarize route: the status and message for an error
\* whose message contains the phrases in msg
SummarizeCatch(msg) ==
    IF "Request timeout" \in msg THEN [status |-> 408, error |-> "Request timed out. Please try again."]
    ELSE IF "API key" \in msg THEN [status |-> 401, error |-> "Invalid API key. Please check your Gemini API configuration."]
    ELSE IF "quota" \in msg THEN [status |-> 429, error |-> "API quota exceeded. Please try again later."]
    ELSE [status |-> 500, error |-> "Failed to generate summary. Please try again."]

\* the earlier, finished requests that computed a summary for the same body, less
\* than 5 minutes ago, which is still the one stored
Earlier(s, b) ==
    {a \in Slots \ {s} :
        /\ sreq[a].pc = "done" /\ sreq[a].resp.status = 200 /\ ~sreq[a].resp.cached
        /\ sreq[a].body = b
        /\ sreq[a].storedAt # -1 /\ ~sreq[a].overwritten
        /\ now - sreq[a].storedAt < 300000}

\* the summary such an earlier request returned
ExpectFrom(s, b) ==
    IF Earlier(s, b) = {} THEN None ELSE sreq[CHOOSE a \in Earlier(s, b) : TRUE].resp.summary

(***************************************************************************)
(* POST /api/send-email: src/src/app/api/send-email/route.ts, lines 1-244   *)
(***************************************************************************)
MaxRecipients == 10

\* request bodies: kind "malformed" is not JSON, "norecipients" has recipients
\* that are not an array, "nosummary" a summary that is not a string; render is
\* "throws" when marked.parse throws on the summary
MailBody(kind, recipients, summary, render) ==
    [kind |-> kind, recipients |-> recipients, summary |-> summary, render |-> render]

good1   == <<Run("a", 1), Run("@", 1), Run("b", 1), Run(".", 1), Run("c", 1)>>
good2   == <<Run("d", 1), Run("@", 1), Run("b", 1), Run(".", 1), Run("c", 1)>>
padded  == <<Run(" ", 1), Run("e", 1), Run("@", 1), Run("b", 1), Run(".", 1), Run("c", 1), Run(" ", 2)>>
angled  == <<Run("<", 1), Run("f", 1), Run("@", 1), Run("b", 1), Run(".", 1), Run("c", 1), Run(">", 1)>>
nodot   == <<Run("a", 1), Run("@", 1), Run("b", 1)>>
toolong == <<Run("a", 251), Run("@", 1), Run("b", 1), Run(".", 1), Run("c", 1)>>
sumText == <<Run("m", 20)>>

\* the messages of the errors sendMail throws
SmtpErrors == {"Invalid login: authentication failed", "Daily sending quota exceeded"}

NoMailResponse ==
    [status |-> 0, error |-> "", successful |-> <<>>, failed |-> <<>>, remaining |-> 0]

\* NextResponse.json(...) of the send-email route
MailResponse(status, error, successful, failed, remaining) ==
    [status |-> status, error |-> error, successful |-> successful, failed |-> failed,
     remaining |-> remaining]

\* an invocation that has not begun.  limited, reached and sends are history marks.
IdleMail ==
    [pc |-> "idle", ip |-> NoIp, body |-> MailBody("malformed", <<>>, <<>>, "ok"),
     remaining |-> 0, valid |-> <<>>, pending |-> {}, results |-> <<>>,
     resp |-> NoMailResponse, limited |-> FALSE, reached |-> {}, sends |-> <<>>]

\* the recipient limit off by one
TooManyRecipients_Eleven(recipients) == Len(recipients) > MaxRecipients + 1

\* recipients.length > 10
TooManyRecipients(recipients) == Len(recipients) > MaxRecipients

RECURSIVE MapSeq(_, _)
MapSeq(f(_), q) == IF q = <<>> THEN <<>> ELSE <<f(Head(q))>> \o MapSeq(f, Tail(q))

\* the recipients without the filter
ValidRecipients_NoFilter(recipients) == MapSeq(sanitizeInput, MapSeq(Trim, recipients))

\* recipients.map(trim).filter(validateEmail).map(sanitizeInput)
ValidRecipients(recipients) ==
    MapSeq(sanitizeInput, SelectSeq(MapSeq(Trim, recipients), validateEmail))

\* the send-email route without its catch block: the exception leaves the handler
MailCatch_Rethrow(msg) == [status |-> 0, error |-> ""]

\* the catch block of the send-email route
MailCatch(msg) ==
    IF "authentication" \in msg THEN [status |-> 401, error |-> "Gmail authentication failed. Please check your credentials."]
    ELSE IF "quota" \in msg \/ "rate limit" \in msg THEN [status |-> 429, error |-> "Gmail sending quota exceeded. Please try again later."]
    ELSE [status |-> 500, error |-> "Failed to send email. Please try again."]

\* the response without the listing of the failed sends
MailOutcome_DropFailed(valid, results, remaining) ==
    LET ok == SelectSeq([i \in 1..Len(valid) |-> i], LAMBDA i : results[i].success)
    IN IF Len(ok) = 0
       THEN MailResponse(500, "Failed to send emails to all recipients", <<>>, <<>>, 0)
       ELSE MailResponse(200, "", [j \in 1..Len(ok) |-> valid[ok[j]]], <<>>, remaining)

\* the response that is a 500 as soon as one send has failed
MailOutcome_AnyFailure(valid, results, remaining) ==
    LET ok == SelectSeq([i \in 1..Len(valid) |-> i], LAMBDA i : results[i].success)
        ko == SelectSeq([i \in 1..Len(valid) |-> i], LAMBDA i : ~results[i].success)
        failed == [j \in 1..Len(ko) |-> [email |-> valid[ko[j]], error |-> results[ko[j]].error]]
    IN IF Len(ko) > 0
       THEN MailResponse(500, "Failed to send emails to all recipients", <<>>, failed, 0)
       ELSE MailResponse(200, "", [j \in 1..Len(ok) |-> valid[ok[j]]], failed, remaining)

\* lines 192-218: the response once every send has settled
MailOutcome(valid, results, remaining) ==
    LET ok == SelectSeq([i \in 1..Len(valid) |-> i], LAMBDA i : results[i].success)
        ko == SelectSeq([i \in 1..Len(valid) |-> i], LAMBDA i : ~results[i].success)
        failed == [j \in 1..Len(ko) |-> [email |-> valid[ko[j]], error |-> results[ko[j]].error]]
    IN IF Len(ok) = 0
       THEN MailResponse(500, "Failed to send emails to all recipients", <<>>, failed, 0)
       ELSE MailResponse(200, "", [j \in 1..Len(ok) |-> valid[ok[j]]], failed, remaining)

(***************************************************************************)
(* Error handling: src/src/lib/error-handler.ts                             *)
(***************************************************************************)
ERROR_CODES ==
    [VALIDATION_ERROR |-> "VALIDATION_ERROR", RATE_LIMIT_EXCEEDED |-> "RATE_LIMIT_EXCEEDED",
     API_ERROR |-> "API_ERROR", NETWORK_ERROR |-> "NETWORK_ERROR",
     AUTHENTICATION_ERROR |-> "AUTHENTICATION_ERROR",
     AUTHORIZATION_ERROR |-> "AUTHORIZATION_ERROR", NOT_FOUND |-> "NOT_FOUND",
     INTERNAL_ERROR |-> "INTERNAL_ERROR"]

ERROR_MESSAGES ==
    [VALIDATION_ERROR |-> "Invalid input provided. Please check your data and try again.",
     RATE_LIMIT_EXCEEDED |-> "Too many requests. Please wait a moment and try again.",
     API_ERROR |-> "Service temporarily unavailable. Please try again later.",
     NETWORK_ERROR |-> "Network connection issue. Please check your internet connection.",
     AUTHENTICATION_ERROR |-> "Authentication failed. Please check your credentials.",
     AUTHORIZATION_ERROR |-> "Access denied. You don't have permission for this action.",
     NOT_FOUND |-> "The requested resource was not found.",
     INTERNAL_ERROR |-> "An unexpected error occurred. Please try again later."]

\* a value that is thrown or passed as an error.  kind is "LuminaError" (an
\* instance of the class), "Error" (another Error), "object" (a plain object)
\* or "string" (not an object).  A property that is absent is None; statusCode
\* is <<>> when absent and <<n>> when it is the number n.
ErrorValue(kind, message, code, statusCode, details, stack, timestamp) ==
    [kind |-> kind, message |-> message, code |-> code, statusCode |-> statusCode,
     details |-> details, stack |-> stack, timestamp |-> timestamp]

NoError == ErrorValue("string", None, None, <<>>, None, None, <<>>)

\* the messages of the errors, and the phrases createUserFriendlyError looks
\* for that each of them contains
RawMessages ==
    {"429 rate limit reached for key AIza-1", "schema validation failed at /users/7",
     "network unreachable 10.1.2.3", "fetch failed: ECONNREFUSED smtp.gmail.com",
     "ENOENT: open /etc/app/secret.key"}

MessageIncludes ==
    {<<"429 rate limit reached for key AIza-1", "rate limit">>,
     <<"schema validation failed at /users/7", "validation">>,
     <<"network unreachable 10.1.2.3", "network">>,
     <<"fetch failed: ECONNREFUSED smtp.gmail.com", "fetch">>}

\* message.includes(phrase)
Includes(message, phrase) == <<message, phrase>> \in MessageIncludes

IsObject(error) == error.kind # "string"

\* createUserFriendlyError that falls back to the message of the error
createUserFriendlyError_Raw(error) ==
    IF error.kind = "LuminaError"
    THEN IF error.code \in DOMAIN ERROR_MESSAGES THEN ERROR_MESSAGES[error.code] ELSE error.message
    ELSE IF IsObject(error) /\ error.code # None /\ error.code \in DOMAIN ERROR_MESSAGES
    THEN ERROR_MESSAGES[error.code]
    ELSE IF IsObject(error) /\ error.message # None
    THEN IF Includes(error.message, "rate limit") THEN ERROR_MESSAGES[ERROR_CODES.RATE_LIMIT_EXCEEDED]
         ELSE IF Includes(error.message, "validation") THEN ERROR_MESSAGES[ERROR_CODES.VALIDATION_ERROR]
         ELSE IF Includes(error.message, "network") \/ Includes(error.message, "fetch")
         THEN ERROR_MESSAGES[ERROR_CODES.NETWORK_ERROR]
         ELSE error.message
    ELSE ERROR_MESSAGES[ERROR_CODES.INTERNAL_ERROR]

\* createUserFriendlyError(error)
createUserFriendlyError(error) ==
    IF error.kind = "LuminaError"
    THEN IF error.code \in DOMAIN ERROR_MESSAGES THEN ERROR_MESSAGES[error.code] ELSE error.message
    ELSE IF IsObject(error) /\ error.code # None /\ error.code \in DOMAIN ERROR_MESSAGES
    THEN ERROR_MESSAGES[error.code]
    ELSE IF IsObject(error) /\ error.message # None
    THEN IF Includes(error.message, "rate limit") THEN ERROR_MESSAGES[ERROR_CODES.RATE_LIMIT_EXCEEDED]
         ELSE IF Includes(error.message, "validation") THEN ERROR_MESSAGES[ERROR_CODES.VALIDATION_ERROR]
         ELSE IF Includes(error.message, "network") \/ Includes(error.message, "fetch")
         THEN ERROR_MESSAGES[ERROR_CODES.NETWORK_ERROR]
         ELSE ERROR_MESSAGES[ERROR_CODES.INTERNAL_ERROR]
    ELSE ERROR_MESSAGES[ERROR_CODES.INTERNAL_ERROR]

DefaultMessage == "An error occurred"

\* handleAPIError(error, defaultMessage) at time t: the AppError it returns
handleAPIError(error, defaultMessage, t) ==
    IF error.kind = "LuminaError"
    THEN ErrorValue("object", error.message, error.code, error.statusCode, error.details,
                    None, <<t>>)
    ELSE ErrorValue("object",
                    IF IsObject(error) /\ error.message # None THEN error.message
                    ELSE defaultMessage,
                    ERROR_CODES.INTERNAL_ERROR, <<500>>,
                    IF IsObject(error) /\ error.stack # None THEN error.stack ELSE None,
                    None, <<t>>)

\* sanitizeErrorResponse(error): the object it returns, as a function of its keys
sanitizeErrorResponse(error) ==
    LET keys == {"message"}
                \cup (IF error.code \notin {None, ""} THEN {"code"} ELSE {})
                \cup (IF error.statusCode \notin {<<>>, <<0>>} THEN {"statusCode"} ELSE {})
    IN [k \in keys |->
          IF k = "message" THEN createUserFriendlyError(error)
          ELSE IF k = "code" THEN error.code
          ELSE error.statusCode]

\* no error is being handled
NoApiError == [stage |-> "none", thrown |-> NoError, appError |-> NoError, response |-> <<>>]

\* the errors that are thrown: instances of LuminaError, other Errors, and a string
ThrownErrors ==
    {ErrorValue("LuminaError", m, c, st, d, "Error: at POST (route.ts:104)", <<>>) :
        m \in RawMessages, c \in {"VALIDATION_ERROR", "API_ERROR", "UNKNOWN_ERROR"},
        st \in {<<400>>, <<500>>}, d \in {None, "user 7 of tenant acme"}}
    \cup {ErrorValue("Error", m, None, <<>>, None, "Error: at POST (route.ts:104)", <<>>) :
             m \in RawMessages}
    \cup {NoError}

\* the AppErrors that are passed to sanitizeErrorResponse directly
AppErrors ==
    {ErrorValue("object", m, c, st, d, None, <<0>>) :
        m \in RawMessages, c \in DOMAIN ERROR_MESSAGES \cup {"UNKNOWN", "", None},
        st \in {<<>>, <<0>>, <<429>>}, d \in {None, "Error: at POST (route.ts:104)"}}

ErrorCases ==
    {[NoApiError EXCEPT !.stage = "thrown", !.thrown = e] : e \in ThrownErrors}
    \cup {[NoApiError EXCEPT !.stage = "handled", !.appError = a] : a \in AppErrors}

(***************************************************************************)
(* The summary page (src/unnamed/part_005), its editor                      *)
(* (src/unnamed/part_002) and the history that src/src/app/upload/page.tsx  *)
(* keeps in localStorage                                                    *)
(***************************************************************************)
\* SummaryData: an entry of the history.  JSON.stringify and JSON.parse return
\* the ids (integers) and the strings of an entry as they were.
SummaryData(id, summary, instruction) ==
    [id |-> id, summary |-> summary, instruction |-> instruction]

\* the texts the user types in the editor
EditTexts == {"T1", ""}

\* the state of the page: route is "none" before the page is opened; dataParam
\* is the data of the URL and summaryData the state of that name, both <<>> when
\* null and <<d>> otherwise; editor is the text of the SummaryEditor, which is
\* mounted while isEditing; saved is a history mark, the text of the save that
\* was the last step of the page.
NoPage ==
    [route |-> "none", dataParam |-> <<>>, loaded |-> FALSE, summaryData |-> <<>>,
     editedSummary |-> "", isEditing |-> FALSE, editor |-> "", saved |-> None]

\* the history that keeps three earlier entries
PushHistory_KeepThree(newEntry, hist) ==
    <<newEntry>> \o SubSeq(hist, 1, IF Len(hist) < 3 THEN Len(hist) ELSE 3)

\* [newEntry, ...history.slice(0, 2)]
PushHistory(newEntry, hist) ==
    <<newEntry>> \o SubSeq(hist, 1, IF Len(hist) < 2 THEN Len(hist) ELSE 2)

\* history.map(item => item.id === summaryData.id ? {...item, summary} : item)
updatedHistory(hist, id, summary) ==
    [i \in 1..Len(hist) |->
        IF hist[i].id = id THEN [hist[i] EXCEPT !.summary = summary] ELSE hist[i]]

(***************************************************************************)
(* Initial state and actions                                                *)
(***************************************************************************)
LimiterTimes == {k * TickMs : k \in 0..MaxTicks}

\* the times at which the clients of the routes act
RouteTimes == {0, TimeoutMs, CACHE_DURATION, CACHE_DURATION + TimeoutMs}

Load(kind, pairs, ips, bodies, texts, errors, starts, times) ==
    [kind |-> kind, pairs |-> pairs, ips |-> ips, bodies |-> bodies, texts |-> texts,
     errors |-> errors, starts |-> starts, times |-> times]

\* one client of any policy, or two clients that share the ip or the policy
LimiterLoads ==
    {Load("limiter", ps, {}, {}, {}, {}, 0, LimiterTimes) :
        ps \in {{a} : a \in Policies \X Ips}
                \cup {{<<"summarize", "10.0.0.1">>, <<"email", "10.0.0.1">>},
                      {<<"email", "10.0.0.1">>, <<"email", NoIp>>}}}

\* clients of the summarize route: a repeated body with every upstream outcome,
\* two bodies with the same cache key, the bodies at the bounds, the bodies that
\* are rejected, and a client that exhausts its budget
SummarizeLoads ==
    {Load("summarize", {}, {"10.0.0.1"}, {Body("json", tA, <<>>)},
          UpstreamTexts, UpstreamErrors, 3, RouteTimes),
     Load("summarize", {}, {"10.0.0.1"}, {Body("json", tColon, <<>>), Body("json", tA, iColon)},
          {"S1", "S2"}, {}, 2, RouteTimes),
     Load("summarize", {}, {"10.0.0.1"}, {Body("json", tMax, iMax), Body("json", tTags, <<>>)},
          {"S1"}, {}, 2, RouteTimes),
     Load("summarize", {}, {NoIp},
          {Body("malformed", <<>>, <<>>), Body("nostring", <<>>, <<>>),
           Body("json", <<>>, <<>>), Body("json", tShort, <<>>), Body("json", tPad, <<>>),
           Body("json", tOver, <<>>), Body("json", tA, iOver)},
          {"S1"}, {}, 2, RouteTimes),
     Load("summarize", {}, {NoIp}, {Body("json", tA, <<>>), Body("json", tShort, <<>>)},
          {"S1"}, {}, MaxStarts, {0, TimeoutMs})}

Repeat(x, n) == [i \in 1..n |-> x]

\* clients of the send-email route: lists with addresses of every kind and with
\* a repeated address, lists of 10 and of more than 10 entries, the bodies that
\* are rejected, and a client that exhausts its budget
EmailLoads ==
    {Load("email", {}, {"10.0.0.1"},
          {MailBody("json", <<good1, nodot, padded>>, sumText, "ok"),
           MailBody("json", <<angled, toolong>>, sumText, "ok"),
           MailBody("json", <<good2, good2>>, sumText, "ok")},
          {}, SmtpErrors, 2, {0}),
     Load("email", {}, {"10.0.0.1"},
          {MailBody("json", <<good1, good2>> \o Repeat(nodot, 8), sumText, "ok"),
           MailBody("json", <<good1, good2>> \o Repeat(nodot, 9), sumText, "ok"),
           MailBody("json", Repeat(good1, 11), sumText, "ok"),
           MailBody("json", Repeat(good2, 12), <<>>, "ok")},
          {}, {"Daily sending quota exceeded"}, 2, {0}),
     Load("email", {}, {NoIp},
          {MailBody("malformed", <<>>, <<>>, "ok"), MailBody("norecipients", <<>>, sumText, "ok"),
           MailBody("json", <<>>, sumText, "ok"), MailBody("nosummary", <<good1>>, <<>>, "ok"),
           MailBody("json", <<good1>>, <<>>, "ok"), MailBody("json", <<nodot>>, sumText, "ok"),
           MailBody("json", <<good1>>, sumText, "throws")},
          {}, {}, 2, {0}),
     Load("email", {}, {NoIp},
          {MailBody("json", <<good1>>, sumText, "ok"), MailBody("json", Repeat(good1, 11), sumText, "ok")},
          {}, {"Daily sending quota exceeded"}, rateLimiters.email.points + 2, {0, TimeoutMs})}

\* errors to handle: no client acts
ErrorLoads == {Load("errors", {}, {}, {}, {}, {}, 0, {0})}

\* a user who generates summaries at the times given and edits them
PageLoads == {Load("page", {}, {}, {}, {"S1", "S2"}, {}, 0, {1000, 2000, 3000, 4000})}

Configured == [gemini |-> TRUE, gmail |-> TRUE]
Unconfigured == [gemini |-> FALSE, gmail |-> FALSE]

InitWith(loads) ==
    /\ now = 0
    /\ limiter = [p \in Policies |-> <<>>]
    /\ rlLast = NoCall
    /\ load \in loads
    /\ env \in IF load.kind = "limiter" THEN {Configured} ELSE {Configured, Unconfigured}
    /\ requestCache = <<>>
    /\ sreq = [s \in Slots |-> IdleReq]
    /\ abandoned = 0
    /\ ereq = [s \in Slots |-> IdleMail]
    /\ started = 0
    /\ apiError \in IF load.kind = "errors" THEN ErrorCases ELSE {NoApiError}
    /\ page = NoPage
    /\ history = <<>>

Init == InitWith(LimiterLoads \cup SummarizeLoads \cup EmailLoads \cup ErrorLoads \cup PageLoads)

\* time passes
Tick ==
    /\ \E t \in load.times : t > now /\ now' = t
    /\ UNCHANGED <<limiter, rlLast, env, requestCache, sreq, abandoned, ereq, started, load, apiError, page, history>>

\* a direct call of rateLimit(rateLimiters[p], req, null)
RateLimit(p, ip) ==
    /\ <<p, ip>> \in load.pairs
    /\ limiter' = LimiterAfter(p, ip, now)
    /\ rlLast' = CallRecord(p, ip, now)
    /\ UNCHANGED <<now, env, requestCache, sreq, abandoned, ereq, started, load, apiError, page, history>>

\* POST /api/summarize is invoked: lines 12-31, the rate limit and its 429
SummarizeStart(s, ip, b) ==
    /\ load.kind = "summarize" /\ ip \in load.ips /\ b \in load.bodies
    /\ sreq[s].pc \in {"idle", "done"}
    /\ started < load.starts /\ abandoned < MaxAbandoned
    /\ started' = started + 1
    /\ limiter' = LimiterAfter("summarize", ip, now)
    /\ rlLast' = CallRecord("summarize", ip, now)
    /\ LET r == rateLimit("summarize", ip, now) IN
       sreq' = [sreq EXCEPT ![s] =
          IF r.success
          THEN [IdleReq EXCEPT !.pc = "admitted", !.ip = ip, !.body = b,
                               !.limited = ~Consume("summarize", EntryOf("summarize", ClientKey(ip)), now).ok,
                               !.remaining = r.remainingPoints]
          ELSE [IdleReq EXCEPT !.pc = "done", !.ip = ip, !.body = b,
                               !.limited = ~Consume("summarize", EntryOf("summarize", ClientKey(ip)), now).ok,
                               !.resp = Response(429, FALSE, "",
                                   "Rate limit exceeded. Please try again later.",
                                   r.remainingPoints)]]
    /\ UNCHANGED <<now, env, requestCache, abandoned, ereq, load, apiError, page, history>>

\* lines 33-104: the body is parsed, validated and sanitized, the cache is looked
\* up and, on a miss, the upstream call is issued and raced against the timer
SummarizeHandle(s) ==
    /\ sreq[s].pc = "admitted"
    /\ LET r == sreq[s]
           b == r.body
           st == sanitizeInput(b.transcript)
           si == IF b.instruction # <<>> THEN sanitizeInput(b.instruction) ELSE <<>>
           key == CacheKey(st, si)
           fail(status, msg, marks) ==
               [r EXCEPT !.pc = "done", !.reached = marks,
                         !.resp = Response(status, FALSE, "", msg, 0)]
       IN sreq' = [sreq EXCEPT ![s] =
            IF b.kind = "malformed"
            THEN fail(SummarizeCatch({}).status, SummarizeCatch({}).error, {})
            ELSE IF b.kind = "nostring" \/ b.transcript = <<>>
            THEN fail(400, "Transcript is required and must be a string", {"validation"})
            ELSE IF ~validateTranscript(b.transcript)
            THEN fail(400, "Transcript must be between 10 and 50,000 characters", {"validation"})
            ELSE IF b.instruction # <<>> /\ ~validateInstruction(b.instruction)
            THEN fail(400, "Instruction must be 500 characters or less", {"validation"})
            ELSE IF ~env.gemini
            THEN fail(500, "Gemini API key not configured", {"validation"})
            ELSE IF CacheHit(key, now)
            THEN [r EXCEPT !.pc = "done", !.key = key, !.pair = [t |-> st, i |-> si],
                           !.reached = {"validation", "lookup"},
                           !.expect = ExpectFrom(s, b),
                           !.seenAge = now - requestCache[key].timestamp,
                           !.hitPair = requestCache[key].pair,
                           !.resp = Response(200, TRUE, requestCache[key].summary, "",
                                             r.remaining)]
            ELSE [r EXCEPT !.pc = "awaiting", !.key = key, !.pair = [t |-> st, i |-> si],
                           !.reached = {"validation", "lookup", "upstream"},
                           !.expect = ExpectFrom(s, b),
                           !.seenAge = IF key \in DOMAIN requestCache
                                       THEN now - requestCache[key].timestamp ELSE -1,
                           !.calls = r.calls + 1,
                           !.startedAt = now]]
    /\ UNCHANGED <<now, limiter, rlLast, env, requestCache, abandoned, ereq, started, load, apiError, page, history>>

\* the upstream result cached before it is checked for emptiness
UpstreamReturns_StoreEmpty(s, summary) ==
    /\ sreq[s].pc = "awaiting"
    /\ now <= sreq[s].startedAt + TimeoutMs
    /\ requestCache' = CacheStore(sreq[s].key, sreq[s].pair, summary, now)
    /\ IF summary = ""
       THEN sreq' = [sreq EXCEPT ![s].pc = "done",
                        ![s].resp = Response(SummarizeCatch({}).status, FALSE, "",
                                             SummarizeCatch({}).error, 0)]
       ELSE sreq' = [x \in Slots |->
                 IF x = s
                 THEN [sreq[s] EXCEPT !.pc = "done", !.storedAt = now,
                          !.resp = Response(200, FALSE, summary, "", sreq[s].remaining)]
                 ELSE IF sreq[x].storedAt # -1 /\ sreq[x].key = sreq[s].key
                 THEN [sreq[x] EXCEPT !.overwritten = TRUE]
                 ELSE sreq[x]]
    /\ UNCHANGED <<now, limiter, rlLast, env, abandoned, ereq, started, load, apiError, page, history>>

\* lines 105-128: the upstream call wins the race with the text summary
UpstreamReturns(s, summary) ==
    /\ sreq[s].pc = "awaiting"
    /\ now <= sreq[s].startedAt + TimeoutMs
    /\ IF summary = ""
       THEN /\ sreq' = [sreq EXCEPT ![s].pc = "done",
                          ![s].resp = Response(SummarizeCatch({}).status, FALSE, "",
                                               SummarizeCatch({}).error, 0)]
            /\ UNCHANGED requestCache
       ELSE /\ requestCache' = CacheStore(sreq[s].key, sreq[s].pair, summary, now)
            /\ sreq' = [x \in Slots |->
                 IF x = s
                 THEN [sreq[s] EXCEPT !.pc = "done", !.storedAt = now,
                          !.resp = Response(200, FALSE, summary, "", sreq[s].remaining)]
                 ELSE IF sreq[x].storedAt # -1 /\ sreq[x].key = sreq[s].key
                 THEN [sreq[x] EXCEPT !.overwritten = TRUE]
                 ELSE sreq[x]]
    /\ UNCHANGED <<now, limiter, rlLast, env, abandoned, ereq, started, load, apiError, page, history>>

\* the upstream error answered with a second call of generateContent
UpstreamThrows_Retry(s, msg) ==
    /\ sreq[s].pc = "awaiting"
    /\ now <= sreq[s].startedAt + TimeoutMs
    /\ sreq' = [sreq EXCEPT ![s].calls = sreq[s].calls + 1]
    /\ UNCHANGED <<now, limiter, rlLast, env, requestCache, abandoned, ereq, started, load, apiError, page, history>>

\* lines 105 and 129-159: the upstream call wins the race with an error
UpstreamThrows(s, msg) ==
    /\ sreq[s].pc = "awaiting"
    /\ now <= sreq[s].startedAt + TimeoutMs
    /\ sreq' = [sreq EXCEPT ![s].pc = "done",
                  ![s].resp = Response(SummarizeCatch(msg).status, FALSE, "",
                                       SummarizeCatch(msg).error, 0)]
    /\ UNCHANGED <<now, limiter, rlLast, env, requestCache, abandoned, ereq, started, load, apiError, page, history>>

\* the timeout that gives the point of the request back to the client
SummarizeTimeout_Refund(s) ==
    /\ sreq[s].pc = "awaiting"
    /\ now >= sreq[s].startedAt + TimeoutMs
    /\ sreq' = [sreq EXCEPT ![s].pc = "done",
                  ![s].resp = Response(SummarizeCatch({"Request timeout"}).status, FALSE, "",
                                       SummarizeCatch({"Request timeout"}).error, 0)]
    /\ abandoned' = abandoned + 1
    /\ limiter' = [limiter EXCEPT !["summarize"][ClientKey(sreq[s].ip)].count = @ - 1]
    /\ UNCHANGED <<now, rlLast, env, requestCache, ereq, started, load, apiError, page, history>>

\* lines 100-105 and 129-138: the timer wins the race; the upstream call stays in flight
SummarizeTimeout(s) ==
    /\ sreq[s].pc = "awaiting"
    /\ now >= sreq[s].startedAt + TimeoutMs
    /\ sreq' = [sreq EXCEPT ![s].pc = "done",
                  ![s].resp = Response(SummarizeCatch({"Request timeout"}).status, FALSE, "",
                                       SummarizeCatch({"Request timeout"}).error, 0)]
    /\ abandoned' = abandoned + 1
    /\ UNCHANGED <<now, limiter, rlLast, env, requestCache, ereq, started, load, apiError, page, history>>

\* an upstream call whose request has timed out settles: nothing awaits it
AbandonedSettles ==
    /\ abandoned > 0
    /\ abandoned' = abandoned - 1
    /\ UNCHANGED <<now, limiter, rlLast, env, requestCache, sreq, ereq, started, load, apiError, page, history>>

\* POST /api/send-email is invoked: lines 6-28, the rate limit and its 429
EmailStart(s, ip, b) ==
    /\ load.kind = "email" /\ ip \in load.ips /\ b \in load.bodies
    /\ ereq[s].pc \in {"idle", "done"}
    /\ started < load.starts
    /\ started' = started + 1
    /\ limiter' = LimiterAfter("email", ip, now)
    /\ rlLast' = CallRecord("email", ip, now)
    /\ LET r == rateLimit("email", ip, now) IN
       ereq' = [ereq EXCEPT ![s] =
          IF r.success
          THEN [IdleMail EXCEPT !.pc = "admitted", !.ip = ip, !.body = b,
                                !.limited = ~Consume("email", EntryOf("email", ClientKey(ip)), now).ok,
                                !.remaining = r.remainingPoints]
          ELSE [IdleMail EXCEPT !.pc = "done", !.ip = ip, !.body = b,
                                !.limited = ~Consume("email", EntryOf("email", ClientKey(ip)), now).ok,
                                !.resp = MailResponse(429,
                                    "Email rate limit exceeded. Please try again later.",
                                    <<>>, <<>>, r.remainingPoints)]]
    /\ UNCHANGED <<now, env, requestCache, sreq, abandoned, load, apiError, page, history>>

\* lines 30-190: the body is parsed and validated, the recipients are filtered,
\* the message is rendered and sendMail is called for every valid recipient
EmailHandle(s) ==
    /\ ereq[s].pc = "admitted"
    /\ LET r == ereq[s]
           b == r.body
           valid == ValidRecipients(b.recipients)
           fail(status, msg, marks) ==
               [r EXCEPT !.pc = "done", !.reached = marks,
                         !.resp = MailResponse(status, msg, <<>>, <<>>, 0)]
       IN ereq' = [ereq EXCEPT ![s] =
            IF b.kind = "malformed"
            THEN fail(MailCatch({}).status, MailCatch({}).error, {})
            ELSE IF b.kind = "norecipients" \/ b.recipients = <<>>
            THEN fail(400, "Recipients are required and must be an array", {"validation"})
            ELSE IF b.kind = "nosummary" \/ b.summary = <<>>
            THEN fail(400, "Summary is required and must be a string", {"validation"})
            ELSE IF TooManyRecipients(b.recipients)
            THEN fail(400, "Maximum 10 recipients allowed per request", {"validation"})
            ELSE IF ~env.gmail
            THEN fail(500, "Gmail credentials not configured. Please check your environment variables.",
                      {"validation"})
            ELSE IF valid = <<>>
            THEN fail(400, "No valid email addresses provided", {"validation"})
            ELSE IF b.render = "throws"
            THEN fail(MailCatch({}).status, MailCatch({}).error, {"validation"})
            ELSE [r EXCEPT !.pc = "sending", !.valid = valid,
                           !.pending = 1..Len(valid),
                           !.results = [i \in {} |-> 0],
                           !.reached = {"validation", "smtp"},
                           !.sends = valid]]
    /\ UNCHANGED <<now, limiter, rlLast, env, requestCache, sreq, abandoned, started, load, apiError, page, history>>

\* the sends joined without the per-recipient catch: the first send that throws
\* ends the request
SendSettles_FailFast(s, i, success, msg) ==
    /\ ereq[s].pc = "sending"
    /\ i \in ereq[s].pending
    /\ LET r == ereq[s]
           res == [j \in DOMAIN r.results \cup {i} |->
                      IF j = i THEN [success |-> success, error |-> msg] ELSE r.results[j]]
       IN ereq' = [ereq EXCEPT ![s] =
            IF ~success
            THEN [r EXCEPT !.pc = "done", !.pending = {}, !.results = res,
                           !.resp = MailResponse(500, "Failed to send email. Please try again.",
                                                 <<>>, <<>>, 0)]
            ELSE IF r.pending = {i}
            THEN [r EXCEPT !.pc = "done", !.pending = {}, !.results = res,
                           !.resp = MailOutcome(r.valid, res, r.remaining)]
            ELSE [r EXCEPT !.pending = r.pending \ {i}, !.results = res]]
    /\ UNCHANGED <<now, limiter, rlLast, env, requestCache, sreq, abandoned, started, load, apiError, page, history>>

\* the send without its try/catch: the exception of sendMail rejects
\* Promise.all and the catch block of the route answers
SendSettles_Uncaught(s, i, success, msg) ==
    /\ ereq[s].pc = "sending"
    /\ i \in ereq[s].pending
    /\ LET r == ereq[s]
           res == [j \in DOMAIN r.results \cup {i} |->
                      IF j = i THEN [success |-> success, error |-> msg] ELSE r.results[j]]
           words == IF msg = "Invalid login: authentication failed"
                    THEN {"authentication"} ELSE {"quota"}
       IN ereq' = [ereq EXCEPT ![s] =
            IF ~success
            THEN [r EXCEPT !.pc = "done", !.pending = {}, !.results = res,
                           !.resp = MailResponse(MailCatch(words).status,
                                                 MailCatch(words).error, <<>>, <<>>, 0)]
            ELSE IF r.pending = {i}
            THEN [r EXCEPT !.pc = "done", !.pending = {}, !.results = res,
                           !.resp = MailOutcome(r.valid, res, r.remaining)]
            ELSE [r EXCEPT !.pending = r.pending \ {i}, !.results = res]]
    /\ UNCHANGED <<now, limiter, rlLast, env, requestCache, sreq, abandoned, started, load, apiError, page, history>>

\* lines 173-218: the send to recipient i settles; when it is the last one,
\* Promise.all resolves and the response is built
SendSettles(s, i, success, msg) ==
    /\ ereq[s].pc = "sending"
    /\ i \in ereq[s].pending
    /\ LET r == ereq[s]
           res == [j \in DOMAIN r.results \cup {i} |->
                      IF j = i THEN [success |-> success, error |-> msg] ELSE r.results[j]]
       IN ereq' = [ereq EXCEPT ![s] =
            IF r.pending = {i}
            THEN [r EXCEPT !.pc = "done", !.pending = {}, !.results = res,
                           !.resp = MailOutcome(r.valid, res, r.remaining)]
            ELSE [r EXCEPT !.pending = r.pending \ {i}, !.results = res]]
    /\ UNCHANGED <<now, limiter, rlLast, env, requestCache, sreq, abandoned, started, load, apiError, page, history>>

(***************************************************************************)
(* The cache when it is about to exceed 100 entries.  The map holds the     *)
(* summaries of earlier requests: some stored at time 0, some TimeoutMs     *)
(* later and the rest at time CACHE_DURATION, and it is now TimeoutMs after *)
(* the last of them.                                                        *)
(***************************************************************************)
MaxStale == 40           \* entries stored at time 0
MaxAtTTL == 30           \* entries stored at time TimeoutMs

\* the transcript of the i-th earlier request
SweepTranscript(i) == <<Run("k", TranscriptMinLen + i)>>

\* requestCache after n earlier requests, n0 of them at time 0 and n1 at TimeoutMs
FilledCache(n, n0, n1) ==
    [k \in {CacheKey(SweepTranscript(i), <<>>) : i \in 1..n} |->
        LET i == StrLen(k) - 1 - TranscriptMinLen IN
        [summary |-> "S2",
         timestamp |-> IF i <= n0 THEN 0 ELSE IF i <= n0 + n1 THEN TimeoutMs ELSE CACHE_DURATION,
         pair |-> [t |-> SweepTranscript(i), i |-> <<>>]]]

SweepCaches ==
    {FilledCache(n, n0, n1) : n \in (CacheSweepSize - 2)..(CacheSweepSize + 2),
                              n0 \in {0, MaxStale}, n1 \in {0, 1, MaxAtTTL}}

\* a client that asks for a transcript that was never summarized, for the first
\* and for the latest of the earlier ones
SweepLoad ==
    Load("summarize", {}, {"10.0.0.1"},
         {Body("json", SweepTranscript(CacheSweepSize + 3), <<>>),
          Body("json", SweepTranscript(1), <<>>),
          Body("json", SweepTranscript(CacheSweepSize - 2), <<>>)},
         {"S1"}, {{}}, 2, {CACHE_DURATION + TimeoutMs, CACHE_DURATION + 2 * TimeoutMs})

InitSweep ==
    /\ now = CACHE_DURATION + TimeoutMs
    /\ limiter = [p \in Policies |-> <<>>]
    /\ rlLast = NoCall
    /\ load = SweepLoad
    /\ env = Configured
    /\ requestCache \in SweepCaches
    /\ sreq = [s \in Slots |-> IdleReq]
    /\ abandoned = 0
    /\ ereq = [s \in Slots |-> IdleMail]
    /\ started = 0
    /\ apiError = NoApiError
    /\ page = NoPage
    /\ history = <<>>

\* handleAPIError is called with the error that was thrown
HandleAPIError ==
    /\ apiError.stage = "thrown"
    /\ apiError' = [apiError EXCEPT !.stage = "handled",
                       !.appError = handleAPIError(apiError.thrown, DefaultMessage, now)]
    /\ UNCHANGED <<now, limiter, rlLast, env, requestCache, sreq, abandoned, ereq, started, load,
                   page, history>>

\* sanitizeErrorResponse is called with the AppError
SanitizeErrorResponse ==
    /\ apiError.stage = "handled"
    /\ apiError' = [apiError EXCEPT !.stage = "sanitized",
                       !.response = sanitizeErrorResponse(apiError.appError)]
    /\ UNCHANGED <<now, limiter, rlLast, env, requestCache, sreq, abandoned, ereq, started, load,
                   page, history>>

\* upload/page.tsx lines 89-107: the summarize route has answered with a summary
\* (the clock has advanced meanwhile, to the next time of the load); the entry is
\* put in the history and the
\* summary page is opened with it
UploadStore(summary, instruction) ==
    /\ load.kind = "page"
    /\ \E t \in load.times :
          /\ t > now /\ \A u \in load.times : u > now => t <= u
          /\ now' = t
          /\ LET newEntry == SummaryData(t, summary, instruction) IN
             /\ history' = PushHistory(newEntry, history)
             /\ page' = [NoPage EXCEPT !.route = "summary", !.dataParam = <<newEntry>>]
    /\ UNCHANGED <<limiter, rlLast, env, requestCache, sreq, abandoned, ereq, started, load,
                   apiError>>

\* the summary page is opened without data in the URL
OpenSummary ==
    /\ load.kind = "page"
    /\ page' = [NoPage EXCEPT !.route = "summary"]
    /\ UNCHANGED <<now, limiter, rlLast, env, requestCache, sreq, abandoned, ereq, started, load,
                   apiError, history>>

\* part_005 lines 36-60: the effect that loads the summary
PageEffect ==
    /\ page.route = "summary" /\ ~page.loaded
    /\ page' =
         IF page.dataParam # <<>>
         THEN [page EXCEPT !.loaded = TRUE, !.summaryData = page.dataParam,
                           !.editedSummary = page.dataParam[1].summary]
         ELSE IF Len(history) > 0
         THEN [page EXCEPT !.loaded = TRUE, !.summaryData = <<history[1]>>,
                           !.editedSummary = history[1].summary]
         ELSE [page EXCEPT !.loaded = TRUE]
    /\ UNCHANGED <<now, limiter, rlLast, env, requestCache, sreq, abandoned, ereq, started, load,
                   apiError, history>>

\* part_005 lines 207-215: the button Edit Summary / Cancel Edit; the editor is
\* mounted with the page's editedSummary (part_002 line 15)
ToggleEditing ==
    /\ page.loaded /\ page.summaryData # <<>>
    /\ page' = [page EXCEPT !.isEditing = ~page.isEditing,
                            !.editor = IF page.isEditing THEN "" ELSE page.editedSummary,
                            !.saved = None]
    /\ UNCHANGED <<now, limiter, rlLast, env, requestCache, sreq, abandoned, ereq, started, load,
                   apiError, history>>

\* part_002 line 25: the user changes the text of the editor
EditorChange(text) ==
    /\ page.isEditing
    /\ page' = [page EXCEPT !.editor = text, !.saved = None]
    /\ UNCHANGED <<now, limiter, rlLast, env, requestCache, sreq, abandoned, ereq, started, load,
                   apiError, history>>

\* part_002 line 41 and part_005 lines 62-79 and 241-244: Save Edits.  onSave
\* calls setEditedSummary with the text of the editor and then handleSaveEdits,
\* which reads the editedSummary and the summaryData of the render it was
\* created in.
EditorSave ==
    /\ page.isEditing
    /\ IF page.summaryData # <<>>
       THEN /\ page' = [page EXCEPT
                          !.summaryData = <<[page.summaryData[1] EXCEPT
                                               !.summary = page.editedSummary]>>,
                          !.editedSummary = page.editor,
                          !.isEditing = FALSE, !.editor = "", !.saved = page.editor]
            /\ history' = updatedHistory(history, page.summaryData[1].id, page.editedSummary)
       ELSE /\ page' = [page EXCEPT !.editedSummary = page.editor, !.saved = page.editor]
            /\ UNCHANGED history
    /\ UNCHANGED <<now, limiter, rlLast, env, requestCache, sreq, abandoned, ereq, started, load,
                   apiError>>

\* part_002 line 38 and part_005 lines 245-248: Cancel
EditorCancel ==
    /\ page.isEditing
    /\ page' = [page EXCEPT !.isEditing = FALSE, !.editor = "", !.saved = None,
                            !.editedSummary = IF page.summaryData # <<>>
                                              THEN page.summaryData[1].summary ELSE ""]
    /\ UNCHANGED <<now, limiter, rlLast, env, requestCache, sreq, abandoned, ereq, started, load,
                   apiError, history>>

NextLimiter ==
    \/ Tick
    \/ \E p \in Policies, ip \in Ips : RateLimit(p, ip)

SpecLimiter == InitWith(LimiterLoads) /\ [][NextLimiter]_vars

NextSummarize ==
    \/ Tick
    \/ \E s \in Slots, ip \in Ips, b \in load.bodies : SummarizeStart(s, ip, b)
    \/ \E s \in Slots : SummarizeHandle(s)
    \/ \E s \in Slots, text \in load.texts : UpstreamReturns(s, text)
    \/ \E s \in Slots, msg \in load.errors : UpstreamThrows(s, msg)
    \/ \E s \in Slots : SummarizeTimeout(s)
    \/ AbandonedSettles

SpecSummarize == InitWith(SummarizeLoads) /\ [][NextSummarize]_vars

\* the summarize route with a cache that is about to exceed 100 entries
SpecSweep == InitSweep /\ [][NextSummarize]_vars

NextEmail ==
    \/ Tick
    \/ \E s \in Slots, ip \in Ips, b \in load.bodies : EmailStart(s, ip, b)
    \/ \E s \in Slots : EmailHandle(s)
    \/ \E s \in Slots, i \in 1..MaxRecipients : SendSettles(s, i, TRUE, "")
    \/ \E s \in Slots, i \in 1..MaxRecipients, msg \in load.errors : SendSettles(s, i, FALSE, msg)

SpecEmail == InitWith(EmailLoads) /\ [][NextEmail]_vars

\* both routes: each run has the clients of one of them
NextRoutes == NextSummarize \/ NextEmail

SpecRoutes == InitWith(SummarizeLoads \cup EmailLoads) /\ [][NextRoutes]_vars

NextErrors == HandleAPIError \/ SanitizeErrorResponse

SpecErrors == InitWith(ErrorLoads) /\ [][NextErrors]_vars

NextPage ==
    \/ \E summary \in load.texts : UploadStore(summary, "Default summary")
    \/ OpenSummary
    \/ PageEffect
    \/ ToggleEditing
    \/ \E text \in EditTexts : EditorChange(text)
    \/ EditorSave
    \/ EditorCancel

SpecPage == InitWith(PageLoads) /\ [][NextPage]_vars

Next == NextLimiter \/ NextRoutes \/ NextErrors \/ NextPage

Spec == Init /\ [][Next]_vars

(***************************************************************************)
(* The policies as the specification states them (ms)                       *)
(***************************************************************************)
StatedPolicy ==
    [summarize |-> [budget |-> 10,  window |-> 60000, block |-> 120000],
     email     |-> [budget |-> 5,   window |-> 60000, block |-> 300000],
     general   |-> [budget |-> 100, window |-> 60000, block |-> 60000]]

\* the entry the last call of rateLimit found: in an unexpired window, unblocked
FoundInWindow ==
    /\ rlLast.before.count > 0
    /\ rlLast.before.blockedUntil = -1
    /\ rlLast.at < rlLast.before.windowStart + StatedPolicy[rlLast.policy].window

\* the entry the last call of rateLimit found had been blocked
FoundBlocked == rlLast.before.blockedAt # -1

\* the stated block duration has elapsed since the block the last call found began
BlockElapsed == rlLast.at >= rlLast.before.blockedAt + StatedPolicy[rlLast.policy].block

(* C1: for every policy and client key, the requests of one window succeed    *)
(* up to the policy's budget (the first of a key, and each later one while    *)
(* fewer than the budget were counted); the next request in the same window   *)
(* is denied with a positive resetTime; and a request made once the block     *)
(* duration has elapsed since the block began succeeds, whether or not        *)
(* requests were denied during the block.                                     *)
C1_BudgetBlockRecover ==
    rlLast.policy # None =>
        /\ rlLast.before.count = 0 => rlLast.result.success
        /\ (FoundInWindow /\ rlLast.before.count < StatedPolicy[rlLast.policy].budget)
               => rlLast.result.success
        /\ (FoundInWindow /\ rlLast.before.count = StatedPolicy[rlLast.policy].budget)
               => (~rlLast.result.success /\ rlLast.result.resetTime > 0)
        /\ (FoundBlocked /\ BlockElapsed) => rlLast.result.success

\* a request succeeds after a block during which another request was denied
C1_Witness ==
    /\ rlLast.policy # None
    /\ FoundBlocked /\ BlockElapsed
    /\ rlLast.before.deniedInBlock
    /\ rlLast.before.count = StatedPolicy[rlLast.policy].budget + 1
    /\ rlLast.result.success

(* C2: a request of a blocked client key is rejected as long as the block     *)
(* duration has not elapsed since the block began, whatever the count and     *)
(* also after the window in which the budget was exceeded has expired.        *)
C2_BlockedRejected ==
    (rlLast.policy # None /\ FoundBlocked /\ ~BlockElapsed) => ~rlLast.result.success

\* a blocked request is rejected after the window of the excess has expired
C2_Witness ==
    /\ rlLast.policy # None
    /\ FoundBlocked /\ ~BlockElapsed
    /\ rlLast.at >= rlLast.before.windowStart + StatedPolicy[rlLast.policy].window
    /\ ~rlLast.result.success

\* the stated window of an entry has not expired
StatedWindowOpen(p, e) == e.count > 0 /\ now < e.windowStart + StatedPolicy[p].window

\* the entry is in its stated block period
StatedBlocked(p, e) == e.blockedAt # -1 /\ now < e.blockedAt + StatedPolicy[p].block

(* C3 as stated: the stored count of an unexpired window never exceeds the    *)
(* policy's point budget.                                                     *)
C3_CountWithinBudget ==
    \A p \in Policies : \A k \in DOMAIN limiter[p] :
        StatedWindowOpen(p, limiter[p][k]) => limiter[p][k].count <= StatedPolicy[p].budget

(* C3 amended: the stored count of an unexpired window exceeds the policy's   *)
(* point budget only while the client key is blocked, the denied request      *)
(* being counted; for a key that is not blocked it never does.                *)
C3_CountWithinBudgetUnlessBlocked ==
    \A p \in Policies : \A k \in DOMAIN limiter[p] :
        /\ (StatedWindowOpen(p, limiter[p][k]) /\ ~StatedBlocked(p, limiter[p][k]))
              => limiter[p][k].count <= StatedPolicy[p].budget
        /\ StatedBlocked(p, limiter[p][k]) => limiter[p][k].count > StatedPolicy[p].budget

\* an unblocked key has used its whole budget in an unexpired window
C3_Witness ==
    \E p \in Policies : \E k \in DOMAIN limiter[p] :
        /\ StatedWindowOpen(p, limiter[p][k])
        /\ ~StatedBlocked(p, limiter[p][k])
        /\ limiter[p][k].count = StatedPolicy[p].budget

\* the requests of both routes that have been received: route, slot
Requests ==
    {<<"summarize", s>> : s \in {x \in Slots : sreq[x].pc # "idle"}}
    \cup {<<"email", s>> : s \in {x \in Slots : ereq[x].pc # "idle"}}

ReqOf(q) == IF q[1] = "summarize" THEN sreq[q[2]] ELSE ereq[q[2]]

\* the external calls a request has made: upstream completions, or SMTP sends
ExternalCalls(q) == IF q[1] = "summarize" THEN sreq[q[2]].calls ELSE Len(ereq[q[2]].sends)

C6_RepeatIsCached ==
    \A s \in Slots :
        sreq[s].expect # None =>
            /\ sreq[s].pc = "done"
            /\ sreq[s].resp.status = 200
            /\ sreq[s].resp.cached
            /\ sreq[s].resp.summary = sreq[s].expect
            /\ sreq[s].calls = 0

\* a repeated request has been served from the cache, some time after the store
C6_Witness ==
    \E a, b \in Slots :
        /\ sreq[b].expect # None /\ sreq[b].resp.cached
        /\ sreq[a].pc = "done" /\ sreq[a].body = sreq[b].body /\ ~sreq[a].resp.cached
        /\ sreq[a].resp.summary = sreq[b].resp.summary
        /\ sreq[b].seenAge > 0

(* C7: a request that finds for its key an entry whose age has reached or      *)
(* exceeded 5 minutes is not served from the cache and makes an upstream call. *)
C7_StaleIsMiss ==
    \A s \in Slots :
        sreq[s].seenAge >= 300000 =>
            /\ ~sreq[s].resp.cached
            /\ sreq[s].calls = 1

\* a request has found an entry exactly 5 minutes old and has called upstream
C7_Witness ==
    \E s \in Slots :
        /\ sreq[s].seenAge = 300000
        /\ sreq[s].key \in DOMAIN requestCache
        /\ sreq[s].calls = 1

(* C8: a response served from the cache carries a summary that was computed    *)
(* for the same (sanitized transcript, sanitized instruction) pair as the      *)
(* request's own.                                                              *)
C8_HitIsOwnPair ==
    \A s \in Slots : sreq[s].resp.cached => sreq[s].hitPair = sreq[s].pair

(* C9: when the timer wins the race the request is answered with 408 and the   *)
(* upstream call stays in flight; when that call settles later, no response    *)
(* and no cache entry changes.                                                 *)
C9_TimeoutDiscardsResult ==
    [][/\ \A s \in Slots :
            (sreq[s].pc = "awaiting" /\ abandoned' = abandoned + 1)
                => (/\ sreq'[s].pc = "done" => sreq'[s].resp.status = 408
                    /\ requestCache' = requestCache)
       /\ abandoned' < abandoned => (requestCache' = requestCache /\ sreq' = sreq)
      ]_vars

\* a request was answered with 408 and its upstream call has settled since,
\* the cache holding nothing for its key
C9_Witness ==
    \E s \in Slots :
        /\ sreq[s].pc = "done" /\ sreq[s].resp.status = 408 /\ sreq[s].calls = 1
        /\ abandoned = 0
        /\ sreq[s].key \notin DOMAIN requestCache

(* C10: a request of the send-email route that the limiter admitted and whose  *)
(* recipient list has more than 10 entries, counted before invalid addresses   *)
(* are filtered out, is answered with 400 and no SMTP send is attempted.       *)
C10_RecipientLimit ==
    \A s \in Slots :
        (/\ ereq[s].pc \in {"sending", "done"}
         /\ ~ereq[s].limited
         /\ ereq[s].body.kind \in {"json", "nosummary"}
         /\ Len(ereq[s].body.recipients) > 10)
        => (ereq[s].pc = "done" /\ ereq[s].resp.status = 400 /\ ereq[s].sends = <<>>)

\* a list of 11 entries of which only 2 are valid addresses has been rejected
C10_Witness ==
    \E s \in Slots :
        /\ ereq[s].pc = "done" /\ ~ereq[s].limited
        /\ Len(ereq[s].body.recipients) = 11
        /\ Len(ValidRecipients(ereq[s].body.recipients)) = 2
        /\ ereq[s].body.summary # <<>>
        /\ ereq[s].resp.status = 400 /\ ereq[s].sends = <<>>

(***************************************************************************)
(* Outcomes of the recipients of one send-email request                     *)
(***************************************************************************)
\* the email requests whose sends have all settled
Delivered == {s \in Slots : ereq[s].pc = "done" /\ "smtp" \in ereq[s].reached}

\* the positions of the supplied list that pass validation
Attempted(recipients) ==
    {i \in 1..Len(recipients) : validateEmail(Trim(recipients[i]))}

\* the form in which a supplied address is sent to and reported
Reported(a) == sanitizeInput(Trim(a))

Count(q, x) == Cardinality({i \in 1..Len(q) : q[i] = x})

FailedEmails(resp) == [j \in 1..Len(resp.failed) |-> resp.failed[j].email]

(* C11: once the sends of an accepted request have settled, every supplied     *)
(* recipient has exactly one outcome: a recipient that fails validation is     *)
(* never sent to and is in neither list, and every recipient that passes is    *)
(* sent to and is listed once, either in the successful list or in the failed  *)
(* list with the error message of its send; the status is 200 whenever at      *)
(* least one send succeeded.                                                   *)
C11_EachRecipientOneOutcome ==
    \A s \in Delivered :
        LET r == ereq[s]
            rec == r.body.recipients
            att == Attempted(rec)
            listed == {r.resp.successful[j] : j \in 1..Len(r.resp.successful)}
                      \cup {r.resp.failed[j].email : j \in 1..Len(r.resp.failed)}
        IN /\ Len(r.sends) = Cardinality(att)
           /\ Len(r.resp.successful) + Len(r.resp.failed) = Cardinality(att)
           /\ \A a \in listed \cup {Reported(rec[i]) : i \in att} :
                 /\ Count(r.sends, a) = Cardinality({i \in att : Reported(rec[i]) = a})
                 /\ Count(r.resp.successful, a) + Count(FailedEmails(r.resp), a)
                      = Count(r.sends, a)
                 /\ Count(r.resp.successful, a)
                      = Cardinality({k \in 1..Len(r.sends) :
                                        r.sends[k] = a /\ r.results[k].success})
           /\ \A j \in 1..Len(r.resp.failed) :
                 \E k \in 1..Len(r.sends) :
                    /\ r.sends[k] = r.resp.failed[j].email
                    /\ ~r.results[k].success
                    /\ r.results[k].error = r.resp.failed[j].error
                    /\ r.resp.failed[j].error \in SmtpErrors
           /\ (\E k \in 1..Len(r.sends) : r.results[k].success) => r.resp.status = 200

\* three recipients, one invalid and one whose send throws: one success, one
\* exclusion, one failure, status 200
C11_Witness ==
    \E s \in Delivered :
        /\ ereq[s].body.recipients = <<good1, nodot, padded>>
        /\ ereq[s].resp.status = 200
        /\ Len(ereq[s].resp.successful) = 1
        /\ Len(ereq[s].resp.failed) = 1
        /\ Len(ereq[s].sends) = 2

(* C12: once every send of a request has settled, the response is the 500 of   *)
(* the all-failed case exactly when no send succeeded, and that response lists *)
(* every valid recipient with the error of its send.                           *)
C12_AllFailedIffNoSuccess ==
    \A s \in Delivered :
        LET r == ereq[s]
            allFailed == /\ r.resp.status = 500
                         /\ r.resp.error = "Failed to send emails to all recipients"
        IN /\ allFailed <=> (\A k \in 1..Len(r.sends) : ~r.results[k].success)
           /\ allFailed =>
                 /\ Len(r.resp.failed) = Len(r.sends)
                 /\ \A k \in 1..Len(r.sends) :
                       r.resp.failed[k] = [email |-> r.sends[k], error |-> r.results[k].error]

\* both sends of a request have thrown
C12_Witness ==
    \E s \in Delivered :
        /\ Len(ereq[s].sends) = 2
        /\ \A k \in 1..2 : ~ereq[s].results[k].success
        /\ ereq[s].resp.status = 500
        /\ Len(ereq[s].resp.failed) = 2

(* C13: every send of a request is started before any of them settles; while  *)
(* a send is pending no response exists, whatever the other sends have done;   *)
(* a step settles one send and leaves every other send as it was; and the      *)
(* response exists only when every send has settled.                           *)
C13_WaitForAll ==
    [][\A s \in Slots :
          LET r == ereq[s] IN
          /\ r.pc = "sending" =>
                /\ r.sends = r.valid
                /\ r.pending # {}
                /\ r.pending \cup DOMAIN r.results = 1..Len(r.sends)
                /\ r.pending \cap DOMAIN r.results = {}
                /\ r.resp = NoMailResponse
                /\ ereq'[s].sends = r.sends
                /\ ereq'[s].pending \subseteq r.pending
                /\ Cardinality(r.pending \ ereq'[s].pending) <= 1
                /\ \A k \in DOMAIN r.results : ereq'[s].results[k] = r.results[k]
                /\ ereq'[s].pc = "done" <=> ereq'[s].pending = {}
                /\ ereq'[s].pc = "done" => DOMAIN ereq'[s].results = 1..Len(r.sends)
          /\ (r.pc = "admitted" /\ ereq'[s].pc = "sending") =>
                /\ ereq'[s].sends = ValidRecipients(r.body.recipients)
                /\ ereq'[s].pending = 1..Len(ereq'[s].sends)
                /\ DOMAIN ereq'[s].results = {}]_vars

\* one send has thrown while another one is still pending
C13_Witness ==
    \E s \in Slots :
        /\ ereq[s].pc = "sending"
        /\ ereq[s].pending # {}
        /\ \E k \in DOMAIN ereq[s].results : ~ereq[s].results[k].success

(* C14: a request makes one SMTP send for every recipient that passes          *)
(* validation and no other; the sends are made when the request leaves         *)
(* validation and none is added afterwards, whether sends fail or not.         *)
C14_OneAttemptEach ==
    [][\A s \in Slots :
          LET r == ereq[s] IN
          /\ (r.pc = "admitted" /\ ereq'[s].pc = "sending") =>
                /\ Len(ereq'[s].sends) = Cardinality(Attempted(r.body.recipients))
                /\ \A a \in {ereq'[s].sends[k] : k \in 1..Len(ereq'[s].sends)} :
                      Count(ereq'[s].sends, a)
                        = Cardinality({i \in Attempted(r.body.recipients) :
                                          Reported(r.body.recipients[i]) = a})
          /\ (r.pc = "admitted" /\ ereq'[s].pc = "done") => ereq'[s].sends = <<>>
          /\ r.pc = "sending" => ereq'[s].sends = r.sends]_vars

\* a request of ten recipients, two of them valid, has made two sends and one
\* of them has failed
C14_Witness ==
    \E s \in Delivered :
        /\ Len(ereq[s].body.recipients) = MaxRecipients
        /\ Len(ereq[s].sends) = 2
        /\ \E k \in 1..2 : ~ereq[s].results[k].success

(***************************************************************************)
(* Errors at the boundary of the two routes                                 *)
(***************************************************************************)
MappedStatuses == {200, 400, 401, 408, 429, 500}

(* C15: in both routes a request has no response while it is in progress, and  *)
(* every step that ends it, an exception included (a body that is not JSON, an *)
(* upstream error, the timeout, an SMTP or a rendering error), gives it one    *)
(* response with a status among 200, 400, 401, 408, 429 and 500, which does    *)
(* not change afterwards.                                                      *)
C15_OneMappedResponse ==
    [][\A s \in Slots :
          /\ sreq'[s].pc = "done" => sreq'[s].resp.status \in MappedStatuses
          /\ sreq'[s].pc # "done" => sreq'[s].resp = NoResponse
          /\ (sreq[s].pc = "admitted" /\ sreq'[s] # sreq[s]) => sreq'[s].pc \in {"awaiting", "done"}
          /\ (sreq[s].pc = "awaiting" /\ sreq'[s] # sreq[s]) => sreq'[s].pc = "done"
          /\ (sreq[s].pc = "done" /\ started' = started) =>
                (sreq'[s].pc = "done" /\ sreq'[s].resp = sreq[s].resp)
          /\ ereq'[s].pc = "done" => ereq'[s].resp.status \in MappedStatuses
          /\ ereq'[s].pc # "done" => ereq'[s].resp = NoMailResponse
          /\ (ereq[s].pc = "admitted" /\ ereq'[s] # ereq[s]) => ereq'[s].pc \in {"sending", "done"}
          /\ (ereq[s].pc = "sending" /\ ereq'[s] # ereq[s]) => ereq'[s].pc \in {"sending", "done"}
          /\ (ereq[s].pc = "done" /\ started' = started) => ereq'[s] = ereq[s]]_vars

\* rendering the summary has thrown after validation, and the request was
\* answered with 500
C15_Witness ==
    \E s \in Slots :
        /\ ereq[s].pc = "done"
        /\ ereq[s].body.render = "throws"
        /\ "validation" \in ereq[s].reached /\ "smtp" \notin ereq[s].reached
        /\ ereq[s].resp.status = 500
        /\ ereq[s].resp.error = "Failed to send email. Please try again."

\* the messages the two routes write themselves
FixedMessages ==
    {"", "Rate limit exceeded. Please try again later.",
     "Transcript is required and must be a string",
     "Transcript must be between 10 and 50,000 characters",
     "Instruction must be 500 characters or less",
     "Gemini API key not configured",
     "Request timed out. Please try again.",
     "Invalid API key. Please check your Gemini API configuration.",
     "API quota exceeded. Please try again later.",
     "Failed to generate summary. Please try again.",
     "Email rate limit exceeded. Please try again later.",
     "Recipients are required and must be an array",
     "Summary is required and must be a string",
     "Maximum 10 recipients allowed per request",
     "Gmail credentials not configured. Please check your environment variables.",
     "No valid email addresses provided",
     "Failed to send emails to all recipients",
     "Gmail authentication failed. Please check your credentials.",
     "Gmail sending quota exceeded. Please try again later.",
     "Failed to send email. Please try again."}

(* C16: no response of either route carries a message produced by an upstream  *)
(* service: every error text in a response body, the per-recipient errors of   *)
(* the send-email route included, is one of the fixed messages of the routes.  *)
C16_OnlyFixedMessages ==
    \A s \in Slots :
        /\ sreq[s].resp.error \in FixedMessages
        /\ ereq[s].resp.error \in FixedMessages
        /\ \A j \in 1..Len(ereq[s].resp.failed) :
              /\ ereq[s].resp.failed[j].error \in FixedMessages
              /\ ereq[s].resp.failed[j].error \notin SmtpErrors

(* C17: the step in which the user saves the text T of the summary editor      *)
(* leaves T as the displayed summary and as summaryData.summary, puts T in the *)
(* history entry of localStorage that has the id of summaryData, and leaves    *)
(* every other history entry as it was.                                        *)
C17_SaveShowsAndStores ==
    [][(page'.saved # None /\ page.saved = None /\ page.summaryData # <<>>) =>
          LET T == page'.saved
              id == page.summaryData[1].id
          IN /\ page'.editedSummary = T
             /\ page'.summaryData # <<>>
             /\ page'.summaryData[1].summary = T
             /\ Len(history') = Len(history)
             /\ \A i \in 1..Len(history) :
                   history'[i] = IF history[i].id = id
                                 THEN [history[i] EXCEPT !.summary = T]
                                 ELSE history[i]]_vars

\* the texts of ERROR_MESSAGES
FixedErrorTexts == {ERROR_MESSAGES[c] : c \in DOMAIN ERROR_MESSAGES}

\* the text the error's code or, failing that, the pattern of its message selects
StatedErrorText(e) ==
    IF e.code \in DOMAIN ERROR_MESSAGES THEN ERROR_MESSAGES[e.code]
    ELSE IF Includes(e.message, "rate limit") THEN ERROR_MESSAGES.RATE_LIMIT_EXCEEDED
    ELSE IF Includes(e.message, "validation") THEN ERROR_MESSAGES.VALIDATION_ERROR
    ELSE IF Includes(e.message, "network") \/ Includes(e.message, "fetch")
    THEN ERROR_MESSAGES.NETWORK_ERROR
    ELSE ERROR_MESSAGES.INTERNAL_ERROR

(* C18: the object sanitizeErrorResponse returns for an AppError has no key    *)
(* but message, code and statusCode; its code and statusCode are those of the  *)
(* AppError; its message is the text of ERROR_MESSAGES that the error's code   *)
(* or the pattern of its message selects, and is neither the message, nor the  *)
(* details, nor the stack of the error.                                        *)
C18_SanitizedResponse ==
    apiError.stage = "sanitized" =>
       LET e == apiError.appError
           r == apiError.response
       IN /\ "message" \in DOMAIN r
          /\ DOMAIN r \subseteq {"message", "code", "statusCode"}
          /\ "code" \in DOMAIN r => r["code"] = e.code
          /\ "statusCode" \in DOMAIN r => r["statusCode"] = e.statusCode
          /\ r["message"] \in FixedErrorTexts
          /\ r["message"] = StatedErrorText(e)
          /\ r["message"] \notin RawMessages \cup {DefaultMessage, e.message, e.details, e.stack,
                                                   apiError.thrown.message,
                                                   apiError.thrown.details,
                                                   apiError.thrown.stack}

\* a LuminaError with details, a code that has no text and a message about a
\* rate limit went through handleAPIError and sanitizeErrorResponse
C18_Witness ==
    /\ apiError.stage = "sanitized"
    /\ apiError.thrown.kind = "LuminaError"
    /\ apiError.appError.details # None
    /\ apiError.appError.code = "UNKNOWN_ERROR"
    /\ Includes(apiError.appError.message, "rate limit")
    /\ DOMAIN apiError.response = {"message", "code", "statusCode"}
    /\ apiError.response["message"] = ERROR_MESSAGES.RATE_LIMIT_EXCEEDED

C20_SweepFrame ==
    [][requestCache' # requestCache =>
         \E s \in Slots :
            LET key == sreq[s].key
                after == DOMAIN requestCache \cup {key}
                stale == {k \in DOMAIN requestCache \ {key} :
                             now - requestCache[k].timestamp > 300000}
            IN /\ sreq[s].pc = "awaiting" /\ sreq'[s].pc = "done"
               /\ sreq'[s].resp.status = 200
               /\ key \in DOMAIN requestCache'
               /\ requestCache'[key].timestamp = now
               /\ requestCache'[key].summary = sreq'[s].resp.summary
               /\ DOMAIN requestCache' =
                     IF Cardinality(after) > 100 THEN after \ stale ELSE after
               /\ \A k \in DOMAIN requestCache' \ {key} :
                     requestCache'[k] = requestCache[k]]_vars

\* a store has left more than 100 entries and the clean-up has deleted the
\* entries older than 5 minutes, and kept one that is exactly 5 minutes old
C20_Witness ==
    \E s \in Slots :
        /\ sreq[s].pc = "done" /\ sreq[s].storedAt = now
        /\ sreq[s].key \in DOMAIN requestCache
        /\ Cardinality(DOMAIN requestCache) < 100 - 2
        /\ Cardinality(DOMAIN requestCache) > 50
        /\ \E k \in DOMAIN requestCache : now - requestCache[k].timestamp = 300000
        /\ \A k \in DOMAIN requestCache : now - requestCache[k].timestamp <= 300000

(* C21: every step that stores a summary in a request cache of at most 100     *)
(* entries, with the clean-up that follows the store, leaves the cache with at *)
(* most 100 entries.                                                           *)
C21_CacheAtMost100 ==
    [][(requestCache' # requestCache /\ Cardinality(DOMAIN requestCache) <= 100) =>
          Cardinality(DOMAIN requestCache') <= 100]_vars

(* C22: a call of rateLimit for one policy and one client key changes the      *)
(* entry of that policy and key only: the count, the window and the block of   *)
(* every other policy and of every other key are the same after the call.      *)
C22_PolicyKeyIndependent ==
    [][\A p \in Policies, k \in Keys :
          EntryOf(p, k)' # EntryOf(p, k) =>
             /\ rlLast'.policy = p /\ rlLast'.key = k /\ rlLast'.at = now
             /\ rlLast'.before = EntryOf(p, k)]_vars

\* one client has spent its email budget and is blocked, while its summarize
\* entry and the email entry of the other client count fewer requests
C22_Witness ==
    \/ /\ StatedBlocked("email", EntryOf("email", "10.0.0.1"))
       /\ EntryOf("summarize", "10.0.0.1").count = 2
       /\ EntryOf("summarize", "10.0.0.1").blockedUntil = -1
    \/ /\ StatedBlocked("email", EntryOf("email", "10.0.0.1"))
       /\ EntryOf("email", "unknown").count = 2
       /\ EntryOf("email", "unknown").blockedUntil = -1

(* C23: a request of a client that is not blocked and whose window has expired *)
(* is allowed, sets the count to 1 and starts a new window at the time of the  *)
(* request; an allowed request reports as remaining the budget minus the count *)
(* of the current window, which is not negative, and a denied request reports  *)
(* 0.                                                                          *)
C23_WindowResetAndRemaining ==
    rlLast.policy # None =>
       LET p == rlLast.policy
           before == rlLast.before
           after == EntryOf(p, rlLast.key)
           expired == before.count > 0
                      /\ rlLast.at >= before.windowStart + StatedPolicy[p].window
           blocked == before.blockedUntil # -1 /\ rlLast.at < before.blockedUntil
       IN /\ (expired /\ before.blockedUntil = -1) =>
                /\ rlLast.result.success
                /\ after.count = 1
                /\ after.windowStart = rlLast.at
                /\ after.blockedUntil = -1
          /\ rlLast.result.success =>
                /\ rlLast.result.remainingPoints = StatedPolicy[p].budget - after.count
                /\ rlLast.result.remainingPoints >= 0
                /\ ~blocked
          /\ ~rlLast.result.success => rlLast.result.remainingPoints = 0

\* a client that had used its whole budget came back after the window and was
\* allowed with the budget minus one remaining
C23_Witness ==
    /\ rlLast.policy = "email"
    /\ rlLast.before.count = 5
    /\ rlLast.before.blockedUntil = -1
    /\ rlLast.at >= rlLast.before.windowStart + 60000
    /\ rlLast.result.success
    /\ rlLast.result.remainingPoints = 4
    /\ EntryOf("email", rlLast.key).count = 1

(* C24: the history of localStorage never holds more than 3 entries and is     *)
(* ordered newest first; a successful summary generation puts its entry at the *)
(* head, keeps the two newest of the earlier entries behind it in their order, *)
(* and drops the older ones.                                                   *)
C24_HistoryNewestThree ==
    [][/\ Len(history') <= 3
       /\ \A i \in 1..Len(history'), j \in 1..Len(history') :
             i < j => history'[i].id > history'[j].id
       /\ now' # now =>
             /\ Len(history') = (IF Len(history) < 2 THEN Len(history) ELSE 2) + 1
             /\ history'[1].id = now'
             /\ history'[1].summary \in load.texts
             /\ \A i \in 2..Len(history') : history'[i] = history[i - 1]]_vars

\* the fourth summary was generated (one is generated at each time of the load):
\* the first one is no longer in the history
C24_Witness ==
    /\ Len(history) = 3
    /\ history[1].id = 4000
    /\ history[3].id = 2000

C26_NoInFlightDedup ==
    [][\A s \in Slots :
          /\ (sreq[s].pc = "admitted" /\ "lookup" \in sreq'[s].reached) =>
                LET key == sreq'[s].key
                    fresh == /\ key \in DOMAIN requestCache
                             /\ now - requestCache[key].timestamp < 300000
                IN /\ sreq'[s].calls = (IF fresh THEN 0 ELSE 1)
                   /\ sreq'[s].pc = (IF fresh THEN "done" ELSE "awaiting")
          /\ (sreq[s].pc = "awaiting" /\ sreq'[s].pc = "done" /\ sreq'[s].resp.status = 200) =>
                /\ sreq[s].key \in DOMAIN requestCache'
                /\ requestCache'[sreq[s].key].summary = sreq'[s].resp.summary
                /\ requestCache'[sreq[s].key].timestamp = now]_vars

\* two requests with the same body have each called upstream; the cache holds
\* the summary of the one that completed last, which is not that of the other
C26_Witness ==
    \E s \in Slots, x \in Slots :
        /\ s # x
        /\ sreq[s].pc = "done" /\ sreq[x].pc = "done"
        /\ sreq[s].body = sreq[x].body
        /\ sreq[s].calls = 1 /\ sreq[x].calls = 1
        /\ sreq[s].resp.status = 200 /\ sreq[x].resp.status = 200
        /\ ~sreq[s].resp.cached /\ ~sreq[x].resp.cached
        /\ sreq[s].overwritten /\ ~sreq[x].overwritten
        /\ sreq[s].resp.summary # sreq[x].resp.summary
        /\ requestCache[sreq[x].key].summary = sreq[x].resp.summary

(* C27: every address the send-email route sends a message to is the trimmed   *)
(* form of one of the recipient strings of the request and passes the email    *)
(* validity check: the sanitization after the validation changes no address.   *)
C27_SentToSuppliedAddress ==
    \A s \in Slots :
        LET r == ereq[s]
        IN "smtp" \in r.reached =>
              \A k \in 1..Len(r.sends) :
                 /\ \E i \in 1..Len(r.body.recipients) :
                       r.sends[k] = Trim(r.body.recipients[i])
                 /\ validateEmail(r.sends[k])

(* C28: the sanitized transcript of every request that passed validation and   *)
(* called upstream is longer than 10 and at most 10,000 characters.            *)
C28_PromptTranscriptInBounds ==
    \A s \in Slots :
        "upstream" \in sreq[s].reached =>
            /\ StrLen(sreq[s].pair.t) > 10
            /\ StrLen(sreq[s].pair.t) <= 10000

(* C29: the request cache changes only in a step in which a summarize request  *)
(* that was waiting for upstream completes, within the 30 seconds of its call, *)
(* with status 200 and a non-empty summary that did not come from the cache;   *)
(* a step that ends a request in any other way, and every step of a request    *)
(* that is not waiting for upstream, leaves the cache as it was.               *)
C29_CacheWrittenOnSuccessOnly ==
    [][/\ requestCache' # requestCache =>
             \E s \in Slots :
                /\ sreq[s].pc = "awaiting" /\ sreq'[s].pc = "done"
                /\ now <= sreq[s].startedAt + 30000
                /\ sreq'[s].resp.status = 200
                /\ ~sreq'[s].resp.cached
                /\ sreq'[s].resp.summary # ""
                /\ requestCache'[sreq[s].key].summary = sreq'[s].resp.summary
       /\ (\E s \in Slots :
              /\ sreq[s].pc # "done" /\ sreq'[s].pc = "done"
              /\ \/ sreq'[s].resp.status # 200
                 \/ sreq'[s].resp.cached) =>
             requestCache' = requestCache]_vars

\* one request has stored its summary, and the other, for the same transcript,
\* has timed out while that entry was too old to serve it: the cache still
\* holds the one entry as it was stored
C29_Witness ==
    \E s \in Slots, x \in Slots :
        /\ sreq[s].pc = "done" /\ sreq[s].resp.status = 200 /\ ~sreq[s].resp.cached
        /\ sreq[x].pc = "done" /\ sreq[x].resp.status = 408
        /\ sreq[x].key = sreq[s].key
        /\ sreq[x].startedAt > sreq[s].storedAt
        /\ DOMAIN requestCache = {sreq[s].key}
        /\ requestCache[sreq[s].key].summary = sreq[s].resp.summary
        /\ requestCache[sreq[s].key].timestamp = sreq[s].storedAt

\* the texts with which the catch block of the send-email route answers
OuterHandlerTexts ==
    {"Gmail authentication failed. Please check your credentials.",
     "Gmail sending quota exceeded. Please try again later.",
     "Failed to send email. Please try again."}

(* C30: a send-email request that has begun sending gives no response while a  *)
(* send is pending, and once they have all settled its status is 200 when a    *)
(* send succeeded and 500 when they all threw, whatever the messages of the    *)
(* exceptions: it is never 401 or 429 and its error is never one of the texts  *)
(* of the catch block of the route.                                            *)
C30_SendErrorsStayPerRecipient ==
    \A s \in Slots :
        LET r == ereq[s] IN
        "smtp" \in r.reached =>
            /\ r.pc = "sending" => r.resp = NoMailResponse
            /\ r.pc = "done" =>
                  /\ r.resp.status \in {200, 500}
                  /\ r.resp.status = 200 <=> \E k \in DOMAIN r.results : r.results[k].success
                  /\ r.resp.error \notin OuterHandlerTexts

\* one request whose only sends threw an authentication error was answered 500,
\* and one with a send that threw a quota error and a send that succeeded, 200
C30_Witness ==
    \E s \in Slots, x \in Slots :
        /\ ereq[s].pc = "done" /\ "smtp" \in ereq[s].reached
        /\ ereq[s].resp.status = 500
        /\ \A k \in DOMAIN ereq[s].results :
              /\ ~ereq[s].results[k].success
              /\ ereq[s].results[k].error = "Invalid login: authentication failed"
        /\ ereq[x].pc = "done" /\ "smtp" \in ereq[x].reached
        /\ ereq[x].resp.status = 200
        /\ \E k \in DOMAIN ereq[x].results :
              /\ ~ereq[x].results[k].success
              /\ ereq[x].results[k].error = "Daily sending quota exceeded"

====
